---- MODULE Spec2Model ----
(***************************************************************************)
(* HobbyVk: the Renderer's Vulkan bootstrap (Renderer::InitVulkan), the    *)
(* frame loop of main (Renderer::DrawFrame, Renderer::WaitIdle and the     *)
(* destructor), and the two asynchronous agents DrawFrame synchronises     *)
(* with: the graphics queue executing submissions and the presentation     *)
(* engine executing present requests.                                      *)
(***************************************************************************)
EXTENDS Integers, Sequences, FiniteSets, TLC

(* ------------------------------ bounds --------------------------------- *)

\* Largest number of swapchain images the surface hands out.
MaxImages == 3

\* The window is closed at the latest after this many DrawFrame calls.
MaxFrames == 4

\* m_nCurrentFrame is never initialised: its first value is any size_t;
\* 0 .. MaxUninit stands for them (0 and 1 in range, the rest out of range).
MaxUninit == 3

(* ------------------------- program constants --------------------------- *)

MAX_FRAMES_IN_FLIGHT == 2

FrameSlots == 0 .. (MAX_FRAMES_IN_FLIGHT - 1)

\* vk::Fence{} : the null handle stored in a fresh m_vImagesInFlight entry.
NullFence == -1

\* A vector that has not been resized yet.
EmptyVec == [x \in {} |-> 0]

VARIABLES
    pc,                      \* position of the main thread
    initStep,                \* index into InitOrder of the next InitVulkan call
    bEnableValidationLayers, \* build flag (_DEBUG)
    layersAvailable,         \* does the loader list VK_LAYER_KHRONOS_validation
    created,                 \* objects created so far, in creation order
    failure,                 \* what a call or a support check reported
    thrown,                  \* what was thrown out of the constructor
    nSwapImages,             \* m_SwapchainImages.size()
    m_nCurrentFrame,
    nImageIndex,             \* local of DrawFrame
    m_vInFlightFences,       \* slot -> is the fence signalled
    m_vImagesInFlight,       \* image -> slot whose fence is recorded, or NullFence
    gfxQueue,                \* submissions not yet completed, in submission order
    presentQueue,            \* present requests not yet executed, in order
    gpuCompleted,            \* number of submissions the GPU has completed
    nCalls,                  \* number of DrawFrame calls started
    trace,                   \* the steps the DrawFrame calls have performed
    slotOf,                  \* the frame slot each DrawFrame call has indexed with
    vecSize,                 \* size() of the per-image and per-frame vectors
    shouldClose,             \* glfwWindowShouldClose
    waitIdleCalled,
    destroyed                \* ~Renderer has run

vars == << pc, initStep, bEnableValidationLayers, layersAvailable, created,
           failure, thrown, nSwapImages, m_nCurrentFrame, nImageIndex,
           m_vInFlightFences, m_vImagesInFlight, gfxQueue, presentQueue,
           gpuCompleted, nCalls, trace, slotOf, vecSize, shouldClose,
           waitIdleCalled, destroyed >>

initVars == << initStep, created, failure, thrown, vecSize >>
buildVars == << bEnableValidationLayers, layersAvailable >>
frameVars == << m_nCurrentFrame, nImageIndex, nCalls, trace, slotOf,
               shouldClose >>
syncVars == << m_vInFlightFences, m_vImagesInFlight >>
queueVars == << gfxQueue, presentQueue, gpuCompleted >>
endVars == << waitIdleCalled, destroyed >>

Range(s) == { s[k] : k \in 1 .. Len(s) }

(* ----------------------------- InitVulkan ------------------------------ *)

\* InitVulkan with CreateGraphicsPipeline called before CreateRenderPass.
InitOrder_PipelineFirst ==
    << "CreateInstance", "SetupDebugMessanger", "CheckValidationLayerSupport",
       "CreateSurface", "PickPhysicalDevice", "CreateLogicalDevice",
       "CreateSwapChain", "CreateImageViews", "CreateGraphicsPipeline",
       "CreateRenderPass", "CreateFramebuffers", "CreateCommandPool",
       "CreateCommandBuffers", "CreateSyncObjects" >>

\* The calls of InitVulkan, in statement order.
InitOrder ==
    << "CreateInstance", "SetupDebugMessanger", "CheckValidationLayerSupport",
       "CreateSurface", "PickPhysicalDevice", "CreateLogicalDevice",
       "CreateSwapChain", "CreateImageViews", "CreateRenderPass",
       "CreateGraphicsPipeline", "CreateFramebuffers", "CreateCommandPool",
       "CreateCommandBuffers", "CreateSyncObjects" >>

\* The handles each call reads (m_Instance.get(), m_Device.get(), ...).
Uses(step) ==
    CASE step = "CreateInstance"              -> {}
      [] step = "SetupDebugMessanger"         ->
            IF bEnableValidationLayers THEN {"instance"} ELSE {}
      [] step = "CheckValidationLayerSupport" -> {}
      [] step = "CreateSurface"               -> {"instance"}
      [] step = "PickPhysicalDevice"          -> {"instance", "surface"}
      [] step = "CreateLogicalDevice"         -> {"physicalDevice", "surface"}
      [] step = "CreateSwapChain"             ->
            {"physicalDevice", "surface", "device"}
      [] step = "CreateImageViews"            -> {"swapchain", "device"}
      [] step = "CreateRenderPass"            -> {"swapchain", "device"}
      [] step = "CreateGraphicsPipeline"      ->
            {"device", "swapchain", "renderPass"}
      [] step = "CreateFramebuffers"          ->
            {"imageViews", "renderPass", "swapchain", "device"}
      [] step = "CreateCommandPool"           ->
            {"physicalDevice", "surface", "device"}
      [] step = "CreateCommandBuffers"        ->
            {"framebuffers", "commandPool", "device", "renderPass",
             "swapchain", "graphicsPipeline"}
      [] step = "CreateSyncObjects"           -> {"swapchain", "device"}

AtInit(step) ==
    /\ pc = "init"
    /\ initStep <= Len(InitOrder)
    /\ InitOrder[initStep] = step

\* The call returns normally, having created obj (a sequence of objects).
Created(obj) ==
    /\ created' = created \o obj
    /\ initStep' = initStep + 1
    /\ pc' = IF initStep = Len(InitOrder) THEN "loop" ELSE "init"
    /\ UNCHANGED << failure, thrown >>

\* The same, of a call that resizes none of the vectors.
Returns(obj) ==
    /\ Created(obj)
    /\ UNCHANGED vecSize

\* The call throws: nothing catches it, neither in the constructor nor in
\* main, so the process ends there.
Throws(cause, what) ==
    /\ failure' = cause
    /\ thrown' = what
    /\ pc' = "terminated"
    /\ UNCHANGED << initStep, created, vecSize >>

restOfInit == << nSwapImages, frameVars, syncVars, queueVars, endVars,
                 buildVars >>

CreateInstance ==
    /\ AtInit("CreateInstance")
    /\ \E extensionsFound \in BOOLEAN :
          IF ~extensionsFound
          THEN Throws("extension_missing", "runtime_error_pointer")
          ELSE IF bEnableValidationLayers /\ ~layersAvailable
          THEN Throws("layers_missing", "runtime_error_pointer")
          ELSE Returns(<< "instance" >>)
    /\ UNCHANGED restOfInit

SetupDebugMessanger ==
    /\ AtInit("SetupDebugMessanger")
    /\ IF ~bEnableValidationLayers
       THEN Returns(<< >>)
       ELSE \E result \in {"VK_SUCCESS", "VK_ERROR_EXTENSION_NOT_PRESENT"} :
              IF result # "VK_SUCCESS"
              THEN Throws("debug_messenger_failed", "runtime_error")
              ELSE Returns(<< "debugMessenger" >>)
    /\ UNCHANGED restOfInit

\* InitVulkan discards the value CheckValidationLayerSupport returns.
CheckValidationLayerSupport ==
    /\ AtInit("CheckValidationLayerSupport")
    /\ created' = created
    /\ initStep' = initStep + 1
    /\ pc' = "init"
    /\ failure' = IF layersAvailable THEN failure ELSE "layers_missing"
    /\ UNCHANGED << thrown, vecSize >>
    /\ UNCHANGED restOfInit

CreateSurface ==
    /\ AtInit("CreateSurface")
    /\ \E result \in {"VK_SUCCESS", "VK_ERROR_INITIALIZATION_FAILED"} :
          IF result # "VK_SUCCESS"
          THEN Throws("surface_failed", "runtime_error")
          ELSE Returns(<< "surface" >>)
    /\ UNCHANGED restOfInit

PickPhysicalDevice ==
    /\ AtInit("PickPhysicalDevice")
    /\ \E nDevices \in 0 .. 1, bChoseDevice \in BOOLEAN :
          IF nDevices = 0
          THEN Throws("no_gpu", "runtime_error")
          ELSE IF ~bChoseDevice
          THEN Throws("no_suitable_gpu", "runtime_error_pointer")
          ELSE Returns(<< "physicalDevice" >>)
    /\ UNCHANGED restOfInit

CreateLogicalDevice ==
    /\ AtInit("CreateLogicalDevice")
    /\ Returns(<< "device" >>)
    /\ UNCHANGED restOfInit

\* nImages = minImageCount + 1, capped by maxImageCount when that is not 0.
SwapImageCount(minImageCount, maxImageCount) ==
    IF maxImageCount > 0 /\ minImageCount + 1 > maxImageCount
    THEN maxImageCount
    ELSE minImageCount + 1

CreateSwapChain ==
    /\ AtInit("CreateSwapChain")
    /\ \E minImageCount \in 1 .. MaxImages, maxImageCount \in 0 .. MaxImages :
          /\ maxImageCount = 0 \/ maxImageCount >= minImageCount
          /\ SwapImageCount(minImageCount, maxImageCount) <= MaxImages
          /\ nSwapImages' = SwapImageCount(minImageCount, maxImageCount)
    /\ Returns(<< "swapchain" >>)
    /\ UNCHANGED << frameVars, syncVars, queueVars, endVars, buildVars >>

\* m_SwapchainImageViews.resize(m_SwapchainImages.size())
CreateImageViews ==
    /\ AtInit("CreateImageViews")
    /\ vecSize' = [vecSize EXCEPT !.m_SwapchainImageViews = nSwapImages]
    /\ Created(<< "imageViews" >>)
    /\ UNCHANGED restOfInit

CreateRenderPass ==
    /\ AtInit("CreateRenderPass")
    /\ Returns(<< "renderPass" >>)
    /\ UNCHANGED restOfInit

CreateGraphicsPipeline ==
    /\ AtInit("CreateGraphicsPipeline")
    /\ \E shaderFilesOpen \in BOOLEAN :
          IF ~shaderFilesOpen
          THEN Throws("shader_file_missing", "runtime_error")
          ELSE Returns(<< "graphicsPipeline" >>)
    /\ UNCHANGED restOfInit

\* m_SwapchainFramebuffers.resize(m_SwapchainImageViews.size())
CreateFramebuffers ==
    /\ AtInit("CreateFramebuffers")
    /\ vecSize' = [vecSize EXCEPT !.m_SwapchainFramebuffers =
                                      vecSize.m_SwapchainImageViews]
    /\ Created(<< "framebuffers" >>)
    /\ UNCHANGED restOfInit

CreateCommandPool ==
    /\ AtInit("CreateCommandPool")
    /\ Returns(<< "commandPool" >>)
    /\ UNCHANGED restOfInit

\* CreateCommandBuffers sizing m_CommandBuffers by the frames in flight.
CreateCommandBuffers_PerFrame ==
    /\ AtInit("CreateCommandBuffers")
    /\ vecSize' = [vecSize EXCEPT !.m_CommandBuffers = MAX_FRAMES_IN_FLIGHT]
    /\ Created(<< "commandBuffers" >>)
    /\ UNCHANGED restOfInit

\* m_CommandBuffers.resize(m_SwapchainFramebuffers.size()); the allocation
\* that replaces the vector asks for commandBufferCount = that size.
CreateCommandBuffers ==
    /\ AtInit("CreateCommandBuffers")
    /\ vecSize' = [vecSize EXCEPT !.m_CommandBuffers =
                                      vecSize.m_SwapchainFramebuffers]
    /\ Created(<< "commandBuffers" >>)
    /\ UNCHANGED restOfInit

\* The fences are created signalled; m_vImagesInFlight holds null handles.
CreateSyncObjects ==
    /\ AtInit("CreateSyncObjects")
    /\ m_vInFlightFences' = [s \in FrameSlots |-> TRUE]
    /\ m_vImagesInFlight' = [i \in 0 .. (nSwapImages - 1) |-> NullFence]
    /\ vecSize' = [vecSize EXCEPT
                      !.m_vImageAvailableSemaphores = MAX_FRAMES_IN_FLIGHT,
                      !.m_vRenderFinishedSemaphores = MAX_FRAMES_IN_FLIGHT]
    /\ Created(<< "syncObjects" >>)
    /\ UNCHANGED << nSwapImages, frameVars, queueVars, endVars, buildVars >>

(* ------------------------------- Init ---------------------------------- *)

Init ==
    /\ pc = "init"
    /\ initStep = 1
    /\ bEnableValidationLayers \in BOOLEAN
    /\ layersAvailable \in BOOLEAN
    /\ created = << >>
    /\ failure = "none"
    /\ thrown = "none"
    /\ nSwapImages = 0
    /\ m_nCurrentFrame \in 0 .. MaxUninit
    /\ nImageIndex = 0
    /\ m_vInFlightFences = EmptyVec
    /\ m_vImagesInFlight = EmptyVec
    /\ gfxQueue = << >>
    /\ presentQueue = << >>
    /\ gpuCompleted = 0
    /\ nCalls = 0
    /\ trace = << >>
    /\ slotOf = << >>
    /\ vecSize = [m_SwapchainImageViews       |-> 0,
                  m_SwapchainFramebuffers     |-> 0,
                  m_CommandBuffers            |-> 0,
                  m_vImageAvailableSemaphores |-> 0,
                  m_vRenderFinishedSemaphores |-> 0]
    /\ shouldClose = FALSE
    /\ waitIdleCalled = FALSE
    /\ destroyed = FALSE

(* ------------------------------ DrawFrame ------------------------------ *)

\* DrawFrame with presentKHR placed before the queue submission.
DrawFrameNext_PresentFirst(label) ==
    CASE label = "df_wait"      -> "df_acquire"
      [] label = "df_acquire"   -> "df_waitImage"
      [] label = "df_waitImage" -> "df_reset"
      [] label = "df_reset"     -> "df_present"
      [] label = "df_present"   -> "df_submit"
      [] label = "df_submit"    -> "df_update"
      [] label = "df_update"    -> "loop"

\* The statements of DrawFrame that call into the device, in statement order.
DrawFrameNext(label) ==
    CASE label = "df_wait"      -> "df_acquire"
      [] label = "df_acquire"   -> "df_waitImage"
      [] label = "df_waitImage" -> "df_reset"
      [] label = "df_reset"     -> "df_submit"
      [] label = "df_submit"    -> "df_present"
      [] label = "df_present"   -> "df_update"
      [] label = "df_update"    -> "loop"

DrawFramePcs == { "df_wait", "df_acquire", "df_waitImage", "df_reset",
                  "df_submit", "df_present", "df_update" }

Logged(op) == Append(trace, [op |-> op, call |-> nCalls])

\* Submissions still pending that will signal the fence of slot s.
PendingOnFence(s) == { k \in 1 .. Len(gfxQueue) : gfxQueue[k].fence = s }

\* Submissions still pending that execute the command buffer of image i.
PendingOnImage(i) == { k \in 1 .. Len(gfxQueue) : gfxQueue[k].image = i }

\* Present requests of image i the presentation engine has not executed.
PendingPresents(i) == { k \in 1 .. Len(presentQueue) : presentQueue[k].image = i }

\* while (renderer.ShouldRun()) renderer.DrawFrame();  then WaitIdle.
MainLoop ==
    /\ pc = "loop"
    /\ IF ~shouldClose
       THEN /\ pc' = "df_wait"
            /\ nCalls' = nCalls + 1
       ELSE /\ pc' = "waitIdle"
            /\ nCalls' = nCalls
    /\ UNCHANGED << initVars, buildVars, nSwapImages, m_nCurrentFrame,
                    nImageIndex, trace, slotOf, shouldClose, syncVars,
                    queueVars, endVars >>

\* m_vInFlightFences[m_nCurrentFrame] with m_nCurrentFrame past the end of
\* the two-element vector: the access is out of bounds and the process
\* faults (the checked vector of the debug build aborts).
DF_OutOfBounds ==
    /\ pc = "df_wait"
    /\ m_nCurrentFrame \notin FrameSlots
    /\ pc' = "fault"
    /\ UNCHANGED << initVars, buildVars, nSwapImages, frameVars, syncVars,
                    queueVars, endVars >>

\* DrawFrame without the wait on the slot's in-flight fence.
DF_WaitFence_NoWait ==
    /\ pc = "df_wait"
    /\ m_nCurrentFrame \in FrameSlots
    /\ trace' = Append(trace, [op |-> "wait", call |-> nCalls])
    /\ slotOf' = Append(slotOf, m_nCurrentFrame)
    /\ pc' = "df_acquire"
    /\ UNCHANGED << initVars, buildVars, nSwapImages, m_nCurrentFrame,
                    nImageIndex, nCalls, shouldClose, syncVars, queueVars,
                    endVars >>

\* waitForFences(m_vInFlightFences[m_nCurrentFrame], true, UINT64_MAX)
DF_WaitFence ==
    /\ pc = "df_wait"
    /\ m_nCurrentFrame \in FrameSlots
    /\ m_vInFlightFences[m_nCurrentFrame]
    /\ trace' = Logged("wait")
    /\ slotOf' = Append(slotOf, m_nCurrentFrame)
    /\ pc' = DrawFrameNext("df_wait")
    /\ UNCHANGED << initVars, buildVars, nSwapImages, m_nCurrentFrame,
                    nImageIndex, nCalls, shouldClose, syncVars, queueVars,
                    endVars >>

\* The images acquireNextImageKHR may return: the application holds none at
\* this point, and the call may return an image before its previous present
\* request has been executed (the semaphore is signalled later).
Acquirable == { i \in 0 .. (nSwapImages - 1) : Cardinality(PendingPresents(i)) <= 1 }

DF_Acquire ==
    /\ pc = "df_acquire"
    /\ \E i \in Acquirable : nImageIndex' = i
    /\ trace' = Logged("acquire")
    /\ pc' = DrawFrameNext("df_acquire")
    /\ UNCHANGED << initVars, buildVars, nSwapImages, m_nCurrentFrame,
                    nCalls, slotOf, shouldClose, syncVars, queueVars,
                    endVars >>

\* DrawFrame without the wait on the fence recorded for the acquired image.
DF_WaitImage_NoWait ==
    /\ pc = "df_waitImage"
    /\ m_vImagesInFlight' =
          [m_vImagesInFlight EXCEPT ![nImageIndex] = m_nCurrentFrame]
    /\ pc' = "df_reset"
    /\ UNCHANGED << initVars, buildVars, nSwapImages, frameVars,
                    m_vInFlightFences, queueVars, endVars >>

\* if (m_vImagesInFlight[i] != vk::Fence{}) waitForFences(m_vImagesInFlight[i]);
\* m_vImagesInFlight[i] = m_vInFlightFences[m_nCurrentFrame];
DF_WaitImage ==
    /\ pc = "df_waitImage"
    /\ \/ m_vImagesInFlight[nImageIndex] = NullFence
       \/ /\ m_vImagesInFlight[nImageIndex] # NullFence
          /\ m_vInFlightFences[m_vImagesInFlight[nImageIndex]]
    /\ m_vImagesInFlight' =
          [m_vImagesInFlight EXCEPT ![nImageIndex] = m_nCurrentFrame]
    /\ pc' = DrawFrameNext("df_waitImage")
    /\ UNCHANGED << initVars, buildVars, nSwapImages, frameVars,
                    m_vInFlightFences, queueVars, endVars >>

\* resetFences(m_vInFlightFences[m_nCurrentFrame])
DF_Reset ==
    /\ pc = "df_reset"
    /\ m_vInFlightFences' = [m_vInFlightFences EXCEPT ![m_nCurrentFrame] = FALSE]
    /\ pc' = DrawFrameNext("df_reset")
    /\ UNCHANGED << initVars, buildVars, nSwapImages, frameVars,
                    m_vImagesInFlight, queueVars, endVars >>

\* DrawFrame passing the other slot's fence to the submission.
DF_Submit_OtherFence ==
    /\ pc = "df_submit"
    /\ gfxQueue' = Append(gfxQueue,
          [call      |-> nCalls,
           image     |-> nImageIndex,
           waitSem   |-> m_nCurrentFrame,
           signalSem |-> m_nCurrentFrame,
           fence     |-> (m_nCurrentFrame + 1) % MAX_FRAMES_IN_FLIGHT])
    /\ trace' = Append(trace, [op |-> "submit", call |-> nCalls])
    /\ pc' = "df_present"
    /\ UNCHANGED << initVars, buildVars, nSwapImages, m_nCurrentFrame,
                    nImageIndex, nCalls, slotOf, shouldClose, syncVars,
                    presentQueue,
                    gpuCompleted, endVars >>

\* m_GraphicsQueue.submit(submitInfo, m_vInFlightFences[m_nCurrentFrame])
DF_Submit ==
    /\ pc = "df_submit"
    /\ gfxQueue' = Append(gfxQueue,
          [call      |-> nCalls,
           image     |-> nImageIndex,
           waitSem   |-> m_nCurrentFrame,
           signalSem |-> m_nCurrentFrame,
           fence     |-> m_nCurrentFrame])
    /\ trace' = Logged("submit")
    /\ pc' = DrawFrameNext("df_submit")
    /\ UNCHANGED << initVars, buildVars, nSwapImages, m_nCurrentFrame,
                    nImageIndex, nCalls, slotOf, shouldClose, syncVars,
                    presentQueue,
                    gpuCompleted, endVars >>

\* m_PresentQueue.presentKHR(presentInfo)
DF_Present ==
    /\ pc = "df_present"
    /\ presentQueue' = Append(presentQueue,
          [call    |-> nCalls,
           image   |-> nImageIndex,
           waitSem |-> m_nCurrentFrame])
    /\ trace' = Logged("present")
    /\ pc' = DrawFrameNext("df_present")
    /\ UNCHANGED << initVars, buildVars, nSwapImages, m_nCurrentFrame,
                    nImageIndex, nCalls, slotOf, shouldClose, syncVars,
                    gfxQueue,
                    gpuCompleted, endVars >>

\* DrawFrame without the advance of the frame counter.
DF_Update_NoAdvance ==
    /\ pc = "df_update"
    /\ \E closeRequested \in BOOLEAN :
          shouldClose' = (shouldClose \/ closeRequested \/ nCalls >= MaxFrames)
    /\ pc' = "loop"
    /\ UNCHANGED << initVars, buildVars, nSwapImages, m_nCurrentFrame,
                    nImageIndex, nCalls, trace, slotOf, syncVars, queueVars,
                    endVars >>

\* m_Window.Update() polls the events, among them a request to close the
\* window; then the frame counter advances.
DF_Update ==
    /\ pc = "df_update"
    /\ \E closeRequested \in BOOLEAN :
          shouldClose' = (shouldClose \/ closeRequested \/ nCalls >= MaxFrames)
    /\ m_nCurrentFrame' = (m_nCurrentFrame + 1) % MAX_FRAMES_IN_FLIGHT
    /\ pc' = DrawFrameNext("df_update")
    /\ UNCHANGED << initVars, buildVars, nSwapImages, nImageIndex, nCalls,
                    trace, slotOf, syncVars, queueVars, endVars >>

DrawFrame ==
    \/ DF_OutOfBounds
    \/ DF_WaitFence
    \/ DF_Acquire
    \/ DF_WaitImage
    \/ DF_Reset
    \/ DF_Submit
    \/ DF_Present
    \/ DF_Update

(* ------------------------ WaitIdle and ~Renderer ----------------------- *)

\* main without the wait for the device to become idle.
WaitIdle_NoWait ==
    /\ pc = "waitIdle"
    /\ waitIdleCalled' = TRUE
    /\ pc' = "destroy"
    /\ UNCHANGED << initVars, buildVars, nSwapImages, frameVars, syncVars,
                    queueVars, destroyed >>

\* m_Device.get().waitIdle() returns once the queues have no work left.
WaitIdle ==
    /\ pc = "waitIdle"
    /\ gfxQueue = << >>
    /\ waitIdleCalled' = TRUE
    /\ pc' = "destroy"
    /\ UNCHANGED << initVars, buildVars, nSwapImages, frameVars, syncVars,
                    queueVars, destroyed >>

\* return 0 runs ~Renderer: destroyFence for every slot, then the members.
Destructor ==
    /\ pc = "destroy"
    /\ destroyed' = TRUE
    /\ pc' = "done"
    /\ UNCHANGED << initVars, buildVars, nSwapImages, frameVars, syncVars,
                    queueVars, waitIdleCalled >>

(* ------------------ the GPU and the presentation engine ---------------- *)

\* The image-available semaphore of a submission is signalled once the
\* presentation engine has executed every earlier present of its image.
ImageAvailable(sub) ==
    \A k \in PendingPresents(sub.image) : presentQueue[k].call >= sub.call

\* The graphics queue completes its oldest submission: the submission's
\* fence and its render-finished semaphore are signalled.
GPU_Complete ==
    /\ ~destroyed
    /\ gfxQueue # << >>
    /\ ImageAvailable(Head(gfxQueue))
    /\ m_vInFlightFences' =
          [m_vInFlightFences EXCEPT ![Head(gfxQueue).fence] = TRUE]
    /\ gfxQueue' = Tail(gfxQueue)
    /\ gpuCompleted' = gpuCompleted + 1
    /\ UNCHANGED << pc, initVars, buildVars, nSwapImages, frameVars,
                    m_vImagesInFlight, presentQueue, endVars >>

\* The presentation engine executes its oldest present request once the
\* submission of the same call has signalled the semaphore it waits on.
PE_Present ==
    /\ ~destroyed
    /\ presentQueue # << >>
    /\ Head(presentQueue).call <= gpuCompleted
    /\ presentQueue' = Tail(presentQueue)
    /\ UNCHANGED << pc, initVars, buildVars, nSwapImages, frameVars,
                    syncVars, gfxQueue, gpuCompleted, endVars >>

InitVulkan ==
    \/ CreateInstance
    \/ SetupDebugMessanger
    \/ CheckValidationLayerSupport
    \/ CreateSurface
    \/ PickPhysicalDevice
    \/ CreateLogicalDevice
    \/ CreateSwapChain
    \/ CreateImageViews
    \/ CreateRenderPass
    \/ CreateGraphicsPipeline
    \/ CreateFramebuffers
    \/ CreateCommandPool
    \/ CreateCommandBuffers
    \/ CreateSyncObjects

Next ==
    \/ InitVulkan
    \/ MainLoop
    \/ DrawFrame
    \/ WaitIdle
    \/ Destructor
    \/ GPU_Complete
    \/ PE_Present

Spec == Init /\ [][Next]_vars

\* The main thread runs while it can; the graphics queue completes every
\* submission whose wait is satisfied; the presentation engine executes
\* every present request whose wait is satisfied.
MainThread ==
    \/ InitVulkan
    \/ MainLoop
    \/ DrawFrame
    \/ WaitIdle
    \/ Destructor

LiveSpec ==
    /\ Init
    /\ [][Next]_vars
    /\ WF_vars(MainThread)
    /\ WF_vars(GPU_Complete)
    /\ WF_vars(PE_Present)

(* ------------------------------ properties ----------------------------- *)

\* C1: at most MAX_FRAMES_IN_FLIGHT submissions are pending at any moment,
\* at most one per frame slot, and DrawFrame reaches its submit only when
\* the previous submission of the slot has signalled its fence.
C1_FramesInFlightBounded ==
    /\ Len(gfxQueue) <= MAX_FRAMES_IN_FLIGHT
    /\ \A s \in FrameSlots : Cardinality(PendingOnFence(s)) <= 1
    /\ pc = "df_submit" => PendingOnFence(m_nCurrentFrame) = {}

\* Two frames are in flight and the next DrawFrame is held at its fence wait.
C1_Witness ==
    /\ Len(gfxQueue) = MAX_FRAMES_IN_FLIGHT
    /\ pc = "df_wait"
    /\ m_nCurrentFrame \in FrameSlots
    /\ ~m_vInFlightFences[m_nCurrentFrame]

DrawFrameOps == << "wait", "acquire", "submit", "present" >>

\* C2: the steps the DrawFrame calls perform are, in this order, wait,
\* acquire, submit, present of call 1, then the same of call 2, and so on;
\* a call that has returned has performed all four.
C2_StepsInOrder ==
    /\ \A p \in 1 .. Len(trace) :
          trace[p] = [op   |-> DrawFrameOps[((p - 1) % 4) + 1],
                      call |-> ((p - 1) \div 4) + 1]
    /\ pc \in {"loop", "waitIdle", "destroy", "done"} => Len(trace) = 4 * nCalls

\* The second call has passed its fence wait, after the present of the first.
C2_Witness ==
    /\ Len(trace) >= 5
    /\ trace[4] = [op |-> "present", call |-> 1]
    /\ trace[5] = [op |-> "wait", call |-> 2]

ObjectOrder ==
    << "instance", "debugMessenger", "surface", "physicalDevice", "device",
       "swapchain", "imageViews", "renderPass", "graphicsPipeline",
       "framebuffers", "commandPool", "commandBuffers", "syncObjects" >>

ObjectPos(obj) == CHOOSE k \in 1 .. Len(ObjectOrder) : ObjectOrder[k] = obj

\* C3: the objects are created in the order of ObjectOrder, the call
\* InitVulkan makes next reads only handles already created, and DrawFrame
\* runs only after every object exists.
C3_InitOrder ==
    /\ \A p, q \in 1 .. Len(created) :
          p < q => ObjectPos(created[p]) < ObjectPos(created[q])
    /\ (pc = "init" /\ initStep <= Len(InitOrder))
          => Uses(InitOrder[initStep]) \subseteq Range(created)
    /\ pc \in DrawFramePcs =>
          /\ initStep = Len(InitOrder) + 1
          /\ Range(ObjectOrder) \ {"debugMessenger"} \subseteq Range(created)
          /\ bEnableValidationLayers => "debugMessenger" \in Range(created)

\* DrawFrame is submitting and all thirteen objects exist.
C3_Witness ==
    /\ pc = "df_submit"
    /\ created = ObjectOrder

\* C4: a reported failure makes the constructor throw a runtime error and
\* end the initialisation at the failed call.
C4_FailureThrowsRuntimeError ==
    failure # "none" => (thrown = "runtime_error" /\ pc = "terminated")

\* C5: DrawFrame runs only while the window has not been asked to close,
\* the loop is left only when it has, and the Renderer is destroyed only
\* after WaitIdle, with no frame in flight.
C5_LoopThenWaitIdle ==
    /\ pc \in (DrawFramePcs \ {"df_update"}) => ~shouldClose
    /\ pc \in {"waitIdle", "destroy", "done"} => shouldClose
    /\ pc \in {"destroy", "done"} => waitIdleCalled
    /\ destroyed => (waitIdleCalled /\ gfxQueue = << >>)

\* The Renderer was destroyed after frames had been drawn.
C5_Witness ==
    /\ destroyed
    /\ nCalls >= 2
    /\ gpuCompleted = nCalls

\* C6: m_nCurrentFrame is a valid index whenever DrawFrame runs.
C6_CurrentFrameInRange ==
    pc \in DrawFramePcs => m_nCurrentFrame \in FrameSlots

\* C7: no command buffer is pending twice, DrawFrame reaches its submit
\* only when no earlier submission of the acquired image's command buffer
\* is pending, and by then the image carries the current slot's fence.
C7_CommandBufferNotPending ==
    /\ \A i \in 0 .. (nSwapImages - 1) : Cardinality(PendingOnImage(i)) <= 1
    /\ pc = "df_submit" => PendingOnImage(nImageIndex) = {}
    /\ pc \in {"df_reset", "df_submit"}
          => m_vImagesInFlight[nImageIndex] = m_nCurrentFrame

\* DrawFrame acquired an image whose earlier submission is still pending
\* and is held at the wait on the fence recorded for it.
C7_Witness ==
    /\ pc = "df_waitImage"
    /\ PendingOnImage(nImageIndex) # {}
    /\ m_vImagesInFlight[nImageIndex] # NullFence
    /\ ~m_vInFlightFences[m_vImagesInFlight[nImageIndex]]

\* C8: the fence is signalled, with no submission pending on it, when
\* DrawFrame resets it; the submission receives that just-reset fence, so
\* every pending submission has an unsignalled fence that no other pending
\* submission shares.
C8_FenceResetWhenSignalled ==
    /\ pc = "df_reset" =>
          /\ m_vInFlightFences[m_nCurrentFrame]
          /\ PendingOnFence(m_nCurrentFrame) = {}
    /\ pc = "df_submit" =>
          /\ ~m_vInFlightFences[m_nCurrentFrame]
          /\ PendingOnFence(m_nCurrentFrame) = {}
    /\ \A k \in 1 .. Len(gfxQueue) :
          /\ ~m_vInFlightFences[gfxQueue[k].fence]
          /\ PendingOnFence(gfxQueue[k].fence) = {k}

\* A slot's fence is reset a second time while the other slot's frame is
\* still in flight.
C8_Witness ==
    /\ pc = "df_submit"
    /\ nCalls >= 3
    /\ gfxQueue # << >>

\* C9: the render-finished semaphore of the current slot has no pending
\* present waiting on it when it is given to a submission, and the
\* image-available semaphore has no pending submission waiting on it when
\* it is given to acquireNextImageKHR.
C9_SemaphoresNotReusedWhilePending ==
    /\ pc = "df_submit" =>
          \A k \in 1 .. Len(presentQueue) :
              presentQueue[k].waitSem # m_nCurrentFrame
    /\ pc = "df_acquire" =>
          \A k \in 1 .. Len(gfxQueue) :
              gfxQueue[k].waitSem # m_nCurrentFrame

\* C10: a DrawFrame call that has started returns to the loop of main.
C10_DrawFrameReturns ==
    (pc \in DrawFramePcs) ~> (pc = "loop")

SlotOfCall(k) == slotOf[k]

\* C11: m_nCurrentFrame changes only at the end of a DrawFrame call, to
\* (m_nCurrentFrame + 1) mod MAX_FRAMES_IN_FLIGHT; a call and the next one
\* use different frame slots, a call and the next but one the same slot.
C11_SlotsAlternate ==
    /\ [][ m_nCurrentFrame' # m_nCurrentFrame =>
             /\ pc = "df_update"
             /\ pc' = "loop"
             /\ m_nCurrentFrame' =
                   (m_nCurrentFrame + 1) % MAX_FRAMES_IN_FLIGHT ]_vars
    /\ [][ pc = "df_update" =>
             m_nCurrentFrame' = (m_nCurrentFrame + 1) % MAX_FRAMES_IN_FLIGHT
          ]_<< pc, m_nCurrentFrame >>
    /\ [](\A k \in 1 .. Len(slotOf) :
             /\ k + 1 <= Len(slotOf) => SlotOfCall(k) # SlotOfCall(k + 1)
             /\ k + 2 <= Len(slotOf) => SlotOfCall(k) = SlotOfCall(k + 2))

\* Three calls have indexed the per-frame arrays.
C11_Witness ==
    /\ Len(slotOf) >= 3
    /\ pc = "df_submit"

\* C12: once InitVulkan has completed, the image views, framebuffers,
\* command buffers and m_vImagesInFlight entries are as many as the
\* swapchain images, the three per-frame arrays have MAX_FRAMES_IN_FLIGHT
\* entries, and the image index DrawFrame acquired is a valid index into
\* m_CommandBuffers and m_vImagesInFlight.
C12_VectorSizes ==
    pc \notin {"init", "terminated"} =>
       /\ nSwapImages >= 1
       /\ vecSize.m_SwapchainImageViews = nSwapImages
       /\ vecSize.m_SwapchainFramebuffers = nSwapImages
       /\ vecSize.m_CommandBuffers = nSwapImages
       /\ DOMAIN m_vImagesInFlight = 0 .. (nSwapImages - 1)
       /\ DOMAIN m_vInFlightFences = FrameSlots
       /\ vecSize.m_vImageAvailableSemaphores = MAX_FRAMES_IN_FLIGHT
       /\ vecSize.m_vRenderFinishedSemaphores = MAX_FRAMES_IN_FLIGHT
       /\ pc \in {"df_waitImage", "df_reset", "df_submit", "df_present"} =>
             /\ nImageIndex \in 0 .. (vecSize.m_CommandBuffers - 1)
             /\ nImageIndex \in DOMAIN m_vImagesInFlight

\* DrawFrame submits the command buffer of the last of three images.
C12_Witness ==
    /\ pc = "df_submit"
    /\ nSwapImages = 3
    /\ nImageIndex = nSwapImages - 1

====
